---- MODULE Spec2Model ----
(***************************************************************************)
(* A model of renderscholar's core (src/renderscholar/scholar.py):         *)
(*   - search_scholar, the paginated collector with its challenge wait     *)
(*     and its two marker files (specification Spec);                      *)
(*   - rank_papers / semantic_rank_papers, the ranking engine              *)
(*     (specification RankSpec).                                           *)
(* Text is a sequence of one-character strings.  Two tokens stand for a    *)
(* fixed run of characters: "CB" for the phrase "Cited by" and "&amp;"     *)
(* for that HTML entity.  An optional value (Python's None) is the empty   *)
(* sequence, a present value v is <<v>>.                                   *)
(***************************************************************************)
EXTENDS Integers, Sequences, FiniteSets, TLC

VARIABLES
    pc,           \* position of search_scholar
    pool_size,    \* argument pool_size
    wait_for_user,\* argument wait_for_user
    pages,        \* local pages
    i,            \* loop variable i
    results,      \* local results
    scrape_done,  \* scrape_done.txt exists
    captcha_flag, \* captcha_flag.txt exists
    driver,       \* the playwright driver: "none", "running", "stopped"
    browser,      \* the browser: "none", "open", "closed"
    markup,       \* the current page shows the results markup
    timedOut,     \* the bounded wait of the current page timed out
    flagMade,     \* captcha_flag.txt was written for the current page
    opCleared,    \* the operator removed captcha_flag.txt for the current page
    entries,      \* local entries: the result entries selected from the page
    ret,          \* the value returned by the last finished run
    visited,      \* the start offsets of the pages requested by the run, in order
    seen,         \* the entries selected from each page read by the run, in order
    rpc,          \* position of a call of rank_papers: "off", "call", "done"
    query,        \* argument query
    papers,       \* argument papers
    max_results,  \* argument max_results
    mode,         \* argument mode
    cos,          \* the embedding model: text -> cosine similarity to query
    ranked        \* outcome of the call: raised, or the positions returned

rankVars == <<rpc, query, papers, max_results, mode, cos, ranked>>

logVars == <<visited, seen>>

vars == <<pc, pool_size, wait_for_user, pages, i, results, scrape_done,
          captcha_flag, driver, browser, markup, timedOut, flagMade,
          opCleared, entries, ret, logVars, rankVars>>

(***************************************************************************)
(* Bounds of the model.                                                    *)
(***************************************************************************)
MaxEntries == 2

\* The pool sizes tried: no page, one page (short and full), two pages.
PoolSizes == {0, 1, 10, 11}

(***************************************************************************)
(* Optional values and text.                                               *)
(***************************************************************************)
None == <<>>

Some(v) == <<v>>

IsNone(o) == o = <<>>

Val(o) == o[1]

Digits == {"0", "1", "2", "3", "4", "5", "6", "7", "8", "9"}

DigitVal(c) ==
    CASE c = "0" -> 0 [] c = "1" -> 1 [] c = "2" -> 2 [] c = "3" -> 3
      [] c = "4" -> 4 [] c = "5" -> 5 [] c = "6" -> 6 [] c = "7" -> 7
      [] c = "8" -> 8 [] c = "9" -> 9

Letters == {"a", "b", "d", "e", "p", "x", "A", "B", "D", "E", "P", "X", "_"}

\* \w of the re module: letters, digits and the underscore.
IsWord(c) == c \in Digits \cup Letters \cup {"CB"}

IsSpace(c) == c = " "

\* str.strip(): drop leading and trailing whitespace.
RECURSIVE LStrip(_)
LStrip(s) ==
    IF s # <<>> /\ IsSpace(Head(s)) THEN LStrip(Tail(s)) ELSE s

RECURSIVE RStrip(_)
RStrip(s) ==
    IF s # <<>> /\ IsSpace(s[Len(s)]) THEN RStrip(SubSeq(s, 1, Len(s) - 1)) ELSE s

Strip(s) == RStrip(LStrip(s))

\* html.unescape: an entity becomes the character it names.
Unescape(s) == [k \in 1..Len(s) |-> IF s[k] = "&amp;" THEN "&" ELSE s[k]]

\* str.replace("Cited by", ""): every occurrence of the phrase is removed.
RECURSIVE RemoveCitedBy(_)
RemoveCitedBy(s) ==
    IF s = <<>> THEN <<>>
    ELSE IF Head(s) = "CB" THEN RemoveCitedBy(Tail(s))
    ELSE <<Head(s)>> \o RemoveCitedBy(Tail(s))

\* "Cited by" in s
ContainsCitedBy(s) == \E k \in 1..Len(s) : s[k] = "CB"

RECURSIVE DecimalValue(_)
DecimalValue(s) ==
    IF s = <<>> THEN 0
    ELSE 10 * DecimalValue(SubSeq(s, 1, Len(s) - 1)) + DigitVal(s[Len(s)])

AllDigits(s) == s # <<>> /\ \A k \in 1..Len(s) : s[k] \in Digits

\* int(text): surrounding whitespace is ignored, one sign is accepted, then
\* decimal digits.  None stands for ValueError.
IntOf(text) ==
    LET t == Strip(text)
        signed == t # <<>> /\ Head(t) \in {"-", "+"}
        body == IF signed THEN Tail(t) ELSE t
    IN  IF ~AllDigits(body) THEN None
        ELSE IF signed /\ Head(t) = "-" THEN Some(0 - DecimalValue(body))
        ELSE Some(DecimalValue(body))

\* re.search(r"\b(19|20)\d{2}\b", text): the positions where the pattern matches.
YearMatchAt(t, k) ==
    /\ k + 3 <= Len(t)
    /\ (k = 1 \/ ~IsWord(t[k - 1]))
    /\ (<<t[k], t[k + 1]>> = <<"1", "9">> \/ <<t[k], t[k + 1]>> = <<"2", "0">>)
    /\ t[k + 2] \in Digits
    /\ t[k + 3] \in Digits
    /\ (k + 3 = Len(t) \/ ~IsWord(t[k + 4]))

\* int(match.group(0)) of the first match, None when there is none.
YearOf(t) ==
    LET hits == {k \in 1..Len(t) : YearMatchAt(t, k)}
    IN  IF hits = {} THEN None
        ELSE LET k == CHOOSE m \in hits : \A n \in hits : m <= n
             IN  Some(DecimalValue(SubSeq(t, k, k + 3)))

(***************************************************************************)
(* One result entry of the page markup.                                    *)
(*   anchor  : None, or <<[text, href]>> for the element "h3 a", href None *)
(*             when the element has no href attribute                      *)
(*   snippet : None, or <<text>> for ".gs_rs"                              *)
(*   authors : None, or <<text>> for ".gs_a"                               *)
(*   pdf     : None, or <<href>> for the document anchor, href None when   *)
(*             the element has no href attribute                           *)
(*   footer  : None, or <<links>> for ".gs_fl", links the texts of its     *)
(*             anchors in document order                                   *)
(* A href is a sequence of tokens, the first one its leading path.         *)
(***************************************************************************)
NoTitle == <<"N", "o", " ", "t", "i", "t", "l", "e">>

ScholarHost == <<"https://scholar.google.com">>

StartsWithScholar(h) == h # <<>> /\ h[1] = "/scholar"

\* title_tag["href"] and pdf_tag["href"] raise KeyError when the element
\* has no href attribute.
EntryRaises(e) ==
    \/ (~IsNone(e.anchor) /\ IsNone(Val(e.anchor).href))
    \/ (~IsNone(e.pdf) /\ IsNone(Val(e.pdf)))

\* footer.find("a", string=lambda s: s and "Cited by" in s)
CiteLink(links) ==
    LET hits == {k \in 1..Len(links) : ContainsCitedBy(links[k])}
    IN  IF hits = {} THEN None
        ELSE Some(links[CHOOSE m \in hits : \A n \in hits : m <= n])

Citations(e) ==
    IF IsNone(e.footer) THEN None
    ELSE LET cite_link == CiteLink(Val(e.footer))
         IN  IF IsNone(cite_link) THEN None
             ELSE IntOf(RemoveCitedBy(Val(cite_link)))

ScholarLink(e) ==
    IF ~IsNone(e.anchor) /\ ~IsNone(Val(e.anchor).href)
    THEN LET h == Val(Val(e.anchor).href)
         IN  Some(IF StartsWithScholar(h) THEN ScholarHost \o h ELSE h)
    ELSE None

\* The dict appended for one entry (defined when EntryRaises(e) is false).
ParseEntry(e) ==
    LET authors_year_text ==
            IF IsNone(e.authors) THEN <<>> ELSE Unescape(Strip(Val(e.authors)))
    IN  [title        |-> IF IsNone(e.anchor) THEN NoTitle
                          ELSE Unescape(Strip(Val(e.anchor).text)),
         link         |-> IF IsNone(e.anchor) THEN None ELSE Val(e.anchor).href,
         scholar_link |-> ScholarLink(e),
         pdf_link     |-> IF IsNone(e.pdf) THEN None ELSE Val(e.pdf),
         snippet      |-> IF IsNone(e.snippet) THEN <<>>
                          ELSE Unescape(Strip(Val(e.snippet))),
         authors_year |-> authors_year_text,
         citations    |-> Citations(e),
         year         |-> YearOf(authors_year_text)]

\* The entries tried on a page.
FullEntry ==
    [anchor  |-> Some([text |-> <<" ", "D", "e", "&amp;">>,
                       href |-> Some(<<"/scholar", "?cluster=1">>)]),
     snippet |-> Some(<<"d", "e", " ">>),
     authors |-> Some(<<"a", " ", "2", "0", "1", "5">>),
     pdf     |-> Some(Some(<<"https://x.org", "/p.pdf">>)),
     footer  |-> Some(<<<<"x">>, <<"CB", " ", "5">>>>)]

BareEntry ==
    [anchor |-> None, snippet |-> None, authors |-> None, pdf |-> None,
     footer |-> None]

NoHrefEntry ==
    [BareEntry EXCEPT !.anchor = Some([text |-> <<"D">>, href |-> None])]

NoPdfHrefEntry == [BareEntry EXCEPT !.pdf = Some(None)]

NegativeCiteEntry ==
    [BareEntry EXCEPT !.footer = Some(<<<<"CB", " ", "-", "5">>>>),
                      !.authors = Some(<<"1", "8", "5", "0">>)]

BadCiteEntry ==
    [BareEntry EXCEPT !.footer = Some(<<<<"CB", " ", "x">>>>),
                      !.anchor = Some([text |-> <<" ">>,
                                       href |-> Some(<<"https://x.org">>)]),
                      !.authors = Some(<<"a", "2", "0", "1", "5">>)]

EntryKinds ==
    {FullEntry, BareEntry, NoHrefEntry, NoPdfHrefEntry, NegativeCiteEntry,
     BadCiteEntry}

RECURSIVE SeqsUpTo(_, _)
SeqsUpTo(S, n) ==
    IF n = 0 THEN {<<>>}
    ELSE LET shorter == SeqsUpTo(S, n - 1)
         IN  shorter \cup {Append(s, x) : s \in {t \in shorter : Len(t) = n - 1}, x \in S}

PageContents == SeqsUpTo(EntryKinds, MaxEntries)

(***************************************************************************)
(* search_scholar                                                          *)
(***************************************************************************)
per_page == 10

PageCount(p) == (p + per_page - 1) \div per_page

\* No call of rank_papers is in progress.
RankOff ==
    /\ rpc = "off"
    /\ query = <<>>
    /\ papers = <<>>
    /\ max_results = 0
    /\ mode = "balanced"
    /\ cos = <<>>
    /\ ranked = [raised |-> FALSE, order |-> <<>>]

Init ==
    /\ RankOff
    /\ pc = "idle"
    /\ pool_size = 0
    /\ wait_for_user = FALSE
    /\ pages = 0
    /\ i = 0
    /\ results = <<>>
    /\ scrape_done \in BOOLEAN
    /\ captcha_flag \in BOOLEAN
    /\ driver = "none"
    /\ browser = "none"
    /\ markup = FALSE
    /\ timedOut = FALSE
    /\ flagMade = FALSE
    /\ opCleared = FALSE
    /\ entries = <<>>
    /\ ret = <<>>
    /\ visited = <<>>
    /\ seen = <<>>

\* A call of search_scholar: lines 29 to 33.
Call ==
    /\ pc \in {"idle", "returned", "raised"}
    /\ \E p \in PoolSizes, w \in BOOLEAN :
          /\ pool_size' = p
          /\ wait_for_user' = w
          /\ pages' = PageCount(p)
    /\ results' = <<>>
    /\ i' = 0
    /\ ret' = <<>>
    /\ pc' = "rmflags"
    /\ UNCHANGED <<scrape_done, captcha_flag, driver, browser, markup,
                   timedOut, flagMade, opCleared, entries>>
    /\ UNCHANGED rankVars
    /\ visited' = <<>>
    /\ seen' = <<>>

\* A variant that leaves an old scrape_done.txt in place.
RemoveFlagsKeepDone ==
    /\ pc = "rmflags"
    /\ captcha_flag' = FALSE
    /\ pc' = "enter"
    /\ UNCHANGED <<pool_size, wait_for_user, pages, i, results, scrape_done,
                   driver, browser, markup, timedOut, flagMade, opCleared,
                   entries, ret>>
    /\ UNCHANGED rankVars
    /\ UNCHANGED logVars

\* remove any old flags
RemoveFlags ==
    /\ pc = "rmflags"
    /\ scrape_done' = FALSE
    /\ captcha_flag' = FALSE
    /\ pc' = "enter"
    /\ UNCHANGED <<pool_size, wait_for_user, pages, i, results, driver,
                   browser, markup, timedOut, flagMade, opCleared, ret, entries>>
    /\ UNCHANGED rankVars
    /\ UNCHANGED logVars

\* with sync_playwright() as p
EnterSession ==
    /\ pc = "enter"
    /\ driver' = "running"
    /\ browser' = "none"
    /\ pc' = "launch"
    /\ UNCHANGED <<pool_size, wait_for_user, pages, i, results, scrape_done,
                   captcha_flag, markup, timedOut, flagMade, opCleared, ret, entries>>
    /\ UNCHANGED rankVars
    /\ UNCHANGED logVars

\* The head of "for i in range(pages)".
LoopHead(n) == IF n < pages THEN "goto" ELSE "close"

\* browser = p.chromium.launch(...), new_context, new_page
Launch ==
    /\ pc = "launch"
    /\ browser' = "open"
    /\ pc' = LoopHead(0)
    /\ UNCHANGED <<pool_size, wait_for_user, pages, i, results, scrape_done,
                   captcha_flag, driver, markup, timedOut, flagMade,
                   opCleared, ret, entries>>
    /\ UNCHANGED rankVars
    /\ UNCHANGED logVars

\* A variant that counts pages, not records, in the start parameter.
OffsetPageNumber(n) == n

\* start = i * per_page
Offset(n) == n * per_page

\* page.goto(url): the page comes up with or without the results markup.
Goto ==
    /\ pc = "goto"
    /\ markup' \in BOOLEAN
    /\ timedOut' = FALSE
    /\ flagMade' = FALSE
    /\ opCleared' = FALSE
    /\ pc' = "wait1"
    /\ UNCHANGED <<pool_size, wait_for_user, pages, i, results, scrape_done,
                   captcha_flag, driver, browser, ret, entries>>
    /\ UNCHANGED rankVars
    /\ visited' = Append(visited, Offset(i))
    /\ UNCHANGED seen

\* page.wait_for_selector(..., timeout=15000) returns.
WaitBoundedOk ==
    /\ pc = "wait1"
    /\ markup
    /\ pc' = "read"
    /\ UNCHANGED <<pool_size, wait_for_user, pages, i, results, scrape_done,
                   captcha_flag, driver, browser, markup, timedOut, flagMade,
                   opCleared, ret, entries>>
    /\ UNCHANGED rankVars
    /\ UNCHANGED logVars

\* Where the except branch goes after its message.
AfterTimeout(w) == IF w THEN "mkflag" ELSE "wait2"

\* page.wait_for_selector(..., timeout=15000) raises: except Exception.
WaitBoundedTimeout ==
    /\ pc = "wait1"
    /\ ~markup
    /\ timedOut' = TRUE
    /\ pc' = AfterTimeout(wait_for_user)
    /\ UNCHANGED <<pool_size, wait_for_user, pages, i, results, scrape_done,
                   captcha_flag, driver, browser, markup, flagMade, opCleared,
                   ret, entries>>
    /\ UNCHANGED rankVars
    /\ UNCHANGED logVars

\* with open("captcha_flag.txt", "w") as f: f.write("waiting")
CreateFlag ==
    /\ pc = "mkflag"
    /\ captcha_flag' = TRUE
    /\ flagMade' = TRUE
    /\ pc' = "poll"
    /\ UNCHANGED <<pool_size, wait_for_user, pages, i, results, scrape_done,
                   driver, browser, markup, timedOut, opCleared, ret, entries>>
    /\ UNCHANGED rankVars
    /\ UNCHANGED logVars

\* A variant that looks at the flag once and goes on ("if" for "while").
PollDoneOnce(flag) == TRUE

\* A variant with the loop condition inverted: it waits while the flag is
\* absent.
PollDoneInverted(flag) == flag

\* What ends "while os.path.exists("captcha_flag.txt"): time.sleep(1)".
PollDone(flag) == ~flag

PollFlag ==
    /\ pc = "poll"
    /\ PollDone(captcha_flag)
    /\ pc' = "wait2"
    /\ UNCHANGED <<pool_size, wait_for_user, pages, i, results, scrape_done,
                   captcha_flag, driver, browser, markup, timedOut, flagMade,
                   opCleared, ret, entries>>
    /\ UNCHANGED rankVars
    /\ UNCHANGED logVars

\* page.wait_for_selector(..., timeout=0) returns.
WaitUnboundedOk ==
    /\ pc = "wait2"
    /\ markup
    /\ pc' = "read"
    /\ UNCHANGED <<pool_size, wait_for_user, pages, i, results, scrape_done,
                   captcha_flag, driver, browser, markup, timedOut, flagMade,
                   opCleared, ret, entries>>
    /\ UNCHANGED rankVars
    /\ UNCHANGED logVars

\* html_content = page.content(); entries = soup.select(...)
ReadPage ==
    /\ pc = "read"
    /\ entries' \in PageContents
    /\ pc' = "parse"
    /\ UNCHANGED <<pool_size, wait_for_user, pages, i, results, scrape_done,
                   captcha_flag, driver, browser, markup, timedOut, flagMade,
                   opCleared, ret>>
    /\ UNCHANGED rankVars
    /\ seen' = Append(seen, entries')
    /\ UNCHANGED visited

\* The dict one turn of "for entry in entries" appends, for each kind of
\* entry a page is drawn from that it does not raise on.
ParseTable == [e \in {x \in EntryKinds : ~EntryRaises(x)} |-> ParseEntry(e)]

ParseAll(es) == [k \in 1..Len(es) |-> ParseTable[es[k]]]

\* "parse entries": the whole "for entry in entries" loop over the page's
\* entries, which either appends one dict per entry or raises KeyError.
ParsePage ==
    /\ pc = "parse"
    /\ IF \E k \in 1..Len(entries) : EntryRaises(entries[k])
       THEN /\ pc' = "unwind"
            /\ UNCHANGED results
       ELSE /\ pc' = "sleep"
            /\ results' = results \o ParseAll(entries)
    /\ UNCHANGED <<pool_size, wait_for_user, pages, i, scrape_done,
                   captcha_flag, driver, browser, markup, timedOut, flagMade,
                   opCleared, entries, ret>>
    /\ UNCHANGED rankVars
    /\ UNCHANGED logVars

\* time.sleep(1), then the next turn of the loop.
SleepNext ==
    /\ pc = "sleep"
    /\ i' = i + 1
    /\ pc' = LoopHead(i + 1)
    /\ UNCHANGED <<pool_size, wait_for_user, pages, results, scrape_done,
                   captcha_flag, driver, browser, markup, timedOut, flagMade,
                   opCleared, ret, entries>>
    /\ UNCHANGED rankVars
    /\ UNCHANGED logVars

\* browser.close()
CloseBrowser ==
    /\ pc = "close"
    /\ browser' = "closed"
    /\ pc' = "exit"
    /\ UNCHANGED <<pool_size, wait_for_user, pages, i, results, scrape_done,
                   captcha_flag, driver, markup, timedOut, flagMade, opCleared,
                   ret, entries>>
    /\ UNCHANGED rankVars
    /\ UNCHANGED logVars

\* The end of the with block: the context manager stops the driver, and a
\* browser still open goes down with the driver that owns it.
BrowserAfterStop(b) == IF b = "open" THEN "closed" ELSE b

SessionExit ==
    /\ driver' = "stopped"
    /\ browser' = BrowserAfterStop(browser)

ExitSession ==
    /\ pc = "exit"
    /\ SessionExit
    /\ pc' = "mkdone"
    /\ UNCHANGED <<pool_size, wait_for_user, pages, i, results, scrape_done,
                   captcha_flag, markup, timedOut, flagMade, opCleared, ret, entries>>
    /\ UNCHANGED rankVars
    /\ UNCHANGED logVars

\* with open("scrape_done.txt", "w") as f: f.write("done")
WriteDone ==
    /\ pc = "mkdone"
    /\ scrape_done' = TRUE
    /\ pc' = "ret"
    /\ UNCHANGED <<pool_size, wait_for_user, pages, i, results, captcha_flag,
                   driver, browser, markup, timedOut, flagMade, opCleared, ret, entries>>
    /\ UNCHANGED rankVars
    /\ UNCHANGED logVars

\* The function's frame is gone once it has returned or raised: what the
\* model remembers of the last page is cleared with it.
FrameGone ==
    /\ results' = <<>>
    /\ markup' = FALSE
    /\ timedOut' = FALSE
    /\ flagMade' = FALSE
    /\ opCleared' = FALSE
    /\ entries' = <<>>

\* return results
Return ==
    /\ pc = "ret"
    /\ ret' = results
    /\ pc' = "returned"
    /\ FrameGone
    /\ UNCHANGED <<pool_size, wait_for_user, pages, i, scrape_done,
                   captcha_flag, driver, browser>>
    /\ UNCHANGED rankVars
    /\ UNCHANGED logVars

\* A step inside the with block fails: the launch, page.goto, the unbounded
\* wait or page.content() raises (the bounded wait's errors are caught).
StepRaises ==
    /\ pc \in {"launch", "goto", "wait2", "read"}
    /\ pc' = "unwind"
    /\ UNCHANGED <<pool_size, wait_for_user, pages, i, results, scrape_done,
                   captcha_flag, driver, browser, markup, timedOut, flagMade,
                   opCleared, ret, entries>>
    /\ UNCHANGED rankVars
    /\ UNCHANGED logVars

\* A variant without the with block: an exception skips every cleanup.
UnwindNoExit ==
    /\ pc = "unwind"
    /\ pc' = "raised"
    /\ FrameGone
    /\ UNCHANGED <<pool_size, wait_for_user, pages, i, scrape_done,
                   captcha_flag, driver, browser, ret>>
    /\ UNCHANGED rankVars
    /\ UNCHANGED logVars

\* The exception leaves the with block: its exit runs, browser.close() and
\* everything after the block do not.
Unwind ==
    /\ pc = "unwind"
    /\ SessionExit
    /\ pc' = "raised"
    /\ FrameGone
    /\ UNCHANGED <<pool_size, wait_for_user, pages, i, scrape_done,
                   captcha_flag, ret>>
    /\ UNCHANGED rankVars
    /\ UNCHANGED logVars

\* The environment: the results markup shows up on the page (it finishes
\* loading, or the operator solves the challenge in the browser).
MarkupAppears ==
    /\ pc \in {"wait1", "mkflag", "poll", "wait2"}
    /\ ~markup
    /\ markup' = TRUE
    /\ UNCHANGED <<pc, pool_size, wait_for_user, pages, i, results,
                   scrape_done, captcha_flag, driver, browser, timedOut,
                   flagMade, opCleared, ret, entries>>
    /\ UNCHANGED rankVars
    /\ UNCHANGED logVars

\* The environment: the operator deletes captcha_flag.txt.
OperatorRemovesFlag ==
    /\ captcha_flag
    /\ captcha_flag' = FALSE
    /\ opCleared' = TRUE
    /\ UNCHANGED <<pc, pool_size, wait_for_user, pages, i, results,
                   scrape_done, driver, browser, markup, timedOut, flagMade,
                   ret, entries>>
    /\ UNCHANGED rankVars
    /\ UNCHANGED logVars

Next ==
    \/ Call
    \/ RemoveFlags
    \/ EnterSession
    \/ Launch
    \/ Goto
    \/ WaitBoundedOk
    \/ WaitBoundedTimeout
    \/ CreateFlag
    \/ PollFlag
    \/ WaitUnboundedOk
    \/ ReadPage
    \/ ParsePage
    \/ SleepNext
    \/ CloseBrowser
    \/ ExitSession
    \/ WriteDone
    \/ Return
    \/ StepRaises
    \/ Unwind
    \/ MarkupAppears
    \/ OperatorRemovesFlag

Spec == Init /\ [][Next]_vars

\* The steps search_scholar takes by itself: everything but a new call, a
\* failure of the browser or the page, and the environment.
ProgramStep ==
    \/ RemoveFlags
    \/ EnterSession
    \/ Launch
    \/ Goto
    \/ WaitBoundedOk
    \/ WaitBoundedTimeout
    \/ CreateFlag
    \/ PollFlag
    \/ WaitUnboundedOk
    \/ ReadPage
    \/ ParsePage
    \/ SleepNext
    \/ CloseBrowser
    \/ ExitSession
    \/ WriteDone
    \/ Return
    \/ Unwind

\* The function runs on one thread that is never starved, and every call it
\* blocks in but the unbounded waits comes back (the bounded wait by its
\* timeout); the operator removes a marker that exists; the results markup
\* shows up on a page that lacks it.
LiveSpec ==
    /\ Spec
    /\ WF_vars(ProgramStep)
    /\ WF_vars(OperatorRemovesFlag)
    /\ WF_vars(MarkupAppears)

(***************************************************************************)
(* Claims about search_scholar, checked under Spec.                        *)
(***************************************************************************)

\* C1: a run that returns gives back at most pool_size records.
C1_AtMostPoolSize == pc = "returned" => Len(ret) <= pool_size

\* The positions of a page on which the bounded wait has timed out and the
\* page has not been parsed yet.
ChallengePending == timedOut /\ pc \in {"mkflag", "poll", "wait2"}

\* C2, as stated: after a timeout of the bounded wait the marker is created,
\* and the page is read only once the operator has removed the marker and
\* the results markup is there; until then the run stays on that page.
C2_TimeoutAlwaysChallenge ==
    /\ [](ChallengePending /\ pc # "mkflag" => flagMade)
    /\ [][ChallengePending =>
            \/ ChallengePending'
            \/ pc' = "unwind"
            \/ (pc' = "read" /\ markup /\ flagMade /\ opCleared /\ ~captcha_flag)]_vars

\* C2, amended: the same for the runs with wait_for_user set; a run without
\* it never creates the marker and reads the page once the unbounded wait
\* has seen the results markup.
C2_ChallengeWhenWaitForUser ==
    /\ [](ChallengePending /\ pc # "mkflag" => (flagMade <=> wait_for_user))
    /\ [](~wait_for_user /\ pc \notin {"idle", "rmflags"} => ~captcha_flag)
    /\ [][ChallengePending =>
            \/ ChallengePending'
            \/ pc' = "unwind"
            \/ /\ pc' = "read"
               /\ markup
               /\ wait_for_user => (flagMade /\ opCleared /\ ~captcha_flag)]_vars

\* C2 witness: a page is about to be read after a timeout, a marker and its
\* removal by the operator.
C2_Witness ==
    pc = "read" /\ timedOut /\ wait_for_user /\ flagMade /\ opCleared /\ markup

\* C3: no run, returned or raised, leaves its driver running or its browser
\* open.
C3_SessionReleased ==
    pc \in {"idle", "returned", "raised", "mkdone", "ret"} =>
        (driver # "running" /\ browser # "open")

\* C3 witness: a run raised on its second page, with the browser launched.
C3_Witness == pc = "raised" /\ i = 1 /\ driver = "stopped" /\ browser = "closed"

\* C4: parsing a page never raises and appends one record per entry.
C4_OneRecordPerEntry ==
    [][pc = "parse" =>
          /\ pc' = "sleep"
          /\ Len(results') = Len(results) + Len(entries)]_vars

\* C9: every returned record has citations unknown or non-negative and a
\* year unknown or within 1900..2099.
C9_NumericFieldsValid ==
    pc = "returned" =>
        \A k \in 1..Len(ret) :
            /\ (IsNone(ret[k].citations) \/ Val(ret[k].citations) >= 0)
            /\ (IsNone(ret[k].year) \/ Val(ret[k].year) \in 1900..2099)

\* The positions of a run between the removal of the old markers and the
\* writing of scrape_done.txt.
Collecting ==
    pc \in {"enter", "launch", "goto", "wait1", "mkflag", "poll", "wait2",
            "read", "parse", "sleep", "close", "exit", "mkdone", "unwind"}

\* C10: scrape_done.txt is absent while a run collects and after a run that
\* raised, and present, with every page parsed, once a run returns.
C10_DoneMarker ==
    /\ Collecting => ~scrape_done
    /\ pc = "raised" => ~scrape_done
    /\ pc \in {"ret", "returned"} => (scrape_done /\ i = pages)

\* C10 witness: a two-page run has returned its records.
C10_Witness == pc = "returned" /\ scrape_done /\ pages = 2 /\ Len(ret) > 0

RECURSIVE Flatten(_)
\* The entries of the pages of a log, page after page.
Flatten(log) ==
    IF log = <<>> THEN <<>> ELSE Head(log) \o Flatten(Tail(log))

\* C11: a run that returns has requested ceil(pool_size / per_page) pages, at
\* the offsets 0, per_page, 2 * per_page, ... in this order, and returns the
\* records of the first page, then of the second, and so on, each page's in
\* the order of its entries.
C11_PagesInOrder ==
    pc = "returned" =>
        /\ Len(visited) * per_page >= pool_size
        /\ (Len(visited) - 1) * per_page < pool_size
        /\ \A k \in 1..Len(visited) : visited[k] = (k - 1) * per_page
        /\ Len(seen) = Len(visited)
        /\ Len(ret) = Len(Flatten(seen))
        /\ \A k \in 1..Len(ret) : ret[k] = ParseEntry(Flatten(seen)[k])

\* C11 witness: a run over two pages of two different entries each, the
\* pages differing, has returned its four records.
C11_Witness ==
    /\ pc = "returned"
    /\ pool_size = 11
    /\ visited = <<0, 10>>
    /\ Len(seen) = 2
    /\ Len(seen[1]) = 2
    /\ Len(seen[2]) = 2
    /\ seen[1][1] # seen[1][2]
    /\ seen[1] # seen[2]
    /\ Len(ret) = 4

InRun == pc \notin {"idle", "returned", "raised"}

\* C13: with no step raising, the operator removing every marker and the
\* markup showing up, every run returns with all its pages parsed and
\* scrape_done.txt written.  A run has a next step of its own everywhere but
\* in the two waits that follow a timeout: there it has none while the marker
\* exists, or while the markup is missing.
C13_RunsReturn ==
    /\ []((InRun /\ pc \notin {"poll", "wait2"}) => ENABLED ProgramStep)
    /\ []((pc = "poll" /\ captcha_flag) => ~ENABLED ProgramStep)
    /\ []((pc = "wait2" /\ ~markup) => ~ENABLED ProgramStep)
    /\ ([](pc # "unwind") =>
           ((pc = "rmflags") ~> (pc = "returned" /\ scrape_done /\ i = pages)))

\* C13 witness: a run of two pages is about to return after a challenge on
\* its last page that the operator resolved.
C13_Witness ==
    /\ pc = "ret"
    /\ pages = 2
    /\ timedOut
    /\ flagMade
    /\ opCleared
    /\ scrape_done

(***************************************************************************)
(* rank_papers and semantic_rank_papers                                    *)
(*                                                                         *)
(* A float is a whole number of millionths (Micro); a weight is a whole    *)
(* number of hundredths, so a score is in units of 10^-8.                  *)
(***************************************************************************)
MaxPapers == 3

Micro == 1000 * 1000

\* str.lower()
Lower(c) ==
    CASE c = "A" -> "a" [] c = "B" -> "b" [] c = "D" -> "d" [] c = "E" -> "e"
      [] c = "P" -> "p" [] c = "X" -> "x" [] c = "N" -> "n"
      [] OTHER -> c

LowerAll(t) == [k \in 1..Len(t) |-> Lower(t[k])]

\* The length of the longest common prefix of a[x..ahi] and b[y..bhi].
RECURSIVE CommonRun(_, _, _, _, _, _)
CommonRun(a, b, x, ahi, y, bhi) ==
    IF x > ahi \/ y > bhi \/ a[x] # b[y] THEN 0
    ELSE 1 + CommonRun(a, b, x + 1, ahi, y + 1, bhi)

\* SequenceMatcher.find_longest_match without junk: the longest block common
\* to a[alo..ahi] and b[blo..bhi], of those the one starting earliest in a,
\* and of those the one starting earliest in b.  <<x, y, k>>, k = 0 for none.
FindLongestMatch(a, b, alo, ahi, blo, bhi) ==
    LET cand == {<<x, y>> : x \in alo..ahi, y \in blo..bhi}
        run(c) == CommonRun(a, b, c[1], ahi, c[2], bhi)
    IN  IF cand = {} THEN <<alo, blo, 0>>
        ELSE LET best == CHOOSE c \in cand :
                            \A d \in cand :
                               \/ run(c) > run(d)
                               \/ /\ run(c) = run(d)
                                  /\ (c[1] < d[1] \/ (c[1] = d[1] /\ c[2] <= d[2]))
             IN  <<best[1], best[2], run(best)>>

\* The total size of SequenceMatcher.get_matching_blocks: the longest match,
\* then the same to its left and to its right.
RECURSIVE Matches(_, _, _, _, _, _)
Matches(a, b, alo, ahi, blo, bhi) ==
    LET m == FindLongestMatch(a, b, alo, ahi, blo, bhi)
    IN  IF m[3] = 0 THEN 0
        ELSE Matches(a, b, alo, m[1] - 1, blo, m[2] - 1)
             + m[3]
             + Matches(a, b, m[1] + m[3], ahi, m[2] + m[3], bhi)

\* SequenceMatcher(None, a, b).ratio(): 2.0 * matches / (len(a) + len(b)),
\* and 1.0 for two empty strings.
Ratio(a, b) ==
    IF Len(a) + Len(b) = 0 THEN Micro
    ELSE (2 * Matches(a, b, 1, Len(a), 1, Len(b)) * Micro) \div (Len(a) + Len(b))

\* math.log1p for the citation counts of the model, rounded to millionths.
Log1p(c) ==
    CASE c = 0 -> 0
      [] c = 1 -> 693147
      [] c = 5 -> 1791759
      [] c = 9 -> 2302585
      [] c = 500 -> 6216606

\* math.log1p raises ValueError (math domain error) at and below -1.
Log1pRaises(c) == c <= -1

\* MODES: the weights of a mode in hundredths.
Modes == {"balanced", "recent", "famous", "influential", "hot", "semantic", "single"}

ModeWeights(m) ==
    CASE m = "balanced" -> [w_sim |-> 50, w_cites |-> 30, w_recency |-> 20]
      [] m = "recent" -> [w_sim |-> 30, w_cites |-> 20, w_recency |-> 50]
      [] m = "famous" -> [w_sim |-> 20, w_cites |-> 70, w_recency |-> 10]
      [] m = "influential" -> [w_sim |-> 40, w_cites |-> 40, w_recency |-> 20]
      [] m = "hot" -> [w_sim |-> 30, w_cites |-> 40, w_recency |-> 30]
      [] m = "single" -> [w_sim |-> 100, w_cites |-> 0, w_recency |-> 0]

\* MODES.get(mode, MODES["balanced"])
Weights(m) ==
    IF m \in Modes \ {"semantic"} THEN ModeWeights(m) ELSE ModeWeights("balanced")

\* similarity (title > snippet)
LexSim(q, paper) ==
    IF paper.title # <<>> THEN Ratio(LowerAll(q), LowerAll(paper.title))
    ELSE IF paper.snippet # <<>> THEN Ratio(LowerAll(q), LowerAll(paper.snippet))
    ELSE 0

\* if paper.get("citations"): None and 0 are falsy.
Truthy(o) == ~IsNone(o) /\ Val(o) # 0

\* recency boost (2000 -> 0.0, 2025 -> 1.0): max(0, (year - 2000) / 25.0)
Recency(paper) ==
    IF Truthy(paper.year)
    THEN LET r == ((Val(paper.year) - 2000) * Micro) \div 25
         IN  IF r > 0 THEN r ELSE 0
    ELSE 0

\* rank_papers: math.log1p(paper["citations"]) if paper.get("citations") else 0.0
LexCites(paper) == IF Truthy(paper.citations) THEN Log1p(Val(paper.citations)) ELSE 0

\* Scoring a paper raises when log1p is applied to a negative count.
ScoreRaises(paper) == Truthy(paper.citations) /\ Log1pRaises(Val(paper.citations))

\* score = (w_sim * sim) + (w_cites * (cites / 10)) + (w_recency * recency)
LexScore(q, paper, w) ==
    w.w_sim * LexSim(q, paper)
    + w.w_cites * (LexCites(paper) \div 10)
    + w.w_recency * Recency(paper)

\* text = paper.get("title", "") + " " + (paper.get("snippet") or "")
SemText(paper) == paper.title \o <<" ">> \o paper.snippet

\* A variant that skips nothing.
SkippedNever(paper) == FALSE

\* if not text.strip(): continue
Skipped(paper) == Strip(SemText(paper)) = <<>>

\* semantic_rank_papers: cites = math.log1p(paper.get("citations") or 0)
SemCites(paper) ==
    Log1p(IF Truthy(paper.citations) THEN Val(paper.citations) ELSE 0)

\* score = (0.6 * sim) + (0.25 * (cites / 10)) + (0.15 * recency)
SemScore(c, paper) ==
    60 * c[SemText(paper)]
    + 25 * (SemCites(paper) \div 10)
    + 15 * Recency(paper)

\* A variant of the sort that puts a pair before the pairs of equal score.
RECURSIVE InsertBeforeEquals(_, _, _)
InsertBeforeEquals(sorted, x, score) ==
    IF sorted = <<>> THEN <<x>>
    ELSE IF score[Head(sorted)] > score[x]
         THEN <<Head(sorted)>> \o InsertBeforeEquals(Tail(sorted), x, score)
         ELSE <<x>> \o sorted

\* One step of the stable descending sort: x goes after every position whose
\* score is at least its own.
RECURSIVE InsertDesc(_, _, _)
InsertDesc(sorted, x, score) ==
    IF sorted = <<>> THEN <<x>>
    ELSE IF score[Head(sorted)] >= score[x]
         THEN <<Head(sorted)>> \o InsertDesc(Tail(sorted), x, score)
         ELSE <<x>> \o sorted

\* scored.sort(key=lambda x: x[0], reverse=True) over the positions in idx
\* (in list order): list.sort is stable, also with reverse=True.
RECURSIVE SortDesc(_, _)
SortDesc(idx, score) ==
    IF idx = <<>> THEN <<>>
    ELSE InsertDesc(SortDesc(SubSeq(idx, 1, Len(idx) - 1), score),
                    idx[Len(idx)], score)

\* lst[:k]
Slice(lst, k) ==
    IF k >= 0 THEN SubSeq(lst, 1, IF k < Len(lst) THEN k ELSE Len(lst))
    ELSE SubSeq(lst, 1, Len(lst) + k)

\* A variant without the special case for "single".
ResultOfNoSingle(sorted, k, m) == Slice(sorted, k)

\* special case for "single" -> only return the top paper; else the slice.
ResultOf(sorted, k, m) ==
    IF m = "single"
    THEN (IF sorted # <<>> THEN <<sorted[1]>> ELSE <<>>)
    ELSE Slice(sorted, k)

RECURSIVE Kept(_, _)
\* The positions of ps, in order, that the semantic loop does not skip.
Kept(ps, n) ==
    IF n = 0 THEN <<>>
    ELSE Kept(ps, n - 1) \o (IF Skipped(ps[n]) THEN <<>> ELSE <<n>>)

Raised == [raised |-> TRUE, order |-> <<>>]

Returned(o) == [raised |-> FALSE, order |-> o]

\* semantic_rank_papers(query, papers, max_results)
SemanticRankPapers(c, ps, k) ==
    LET kept == Kept(ps, Len(ps))
    IN  IF \E n \in 1..Len(kept) : ScoreRaises(ps[kept[n]]) THEN Raised
        ELSE LET score == [n \in 1..Len(ps) |->
                              IF Skipped(ps[n]) THEN 0 ELSE SemScore(c, ps[n])]
             IN  Returned(Slice(SortDesc(kept, score), k))

\* rank_papers(query, papers, max_results, mode): the positions of papers
\* that the returned list holds, in its order.
RankPapers(q, c, ps, k, m) ==
    IF m = "semantic" THEN SemanticRankPapers(c, ps, k)
    ELSE IF \E n \in 1..Len(ps) : ScoreRaises(ps[n]) THEN Raised
    ELSE LET score == [n \in 1..Len(ps) |-> LexScore(q, ps[n], Weights(m))]
             all == [n \in 1..Len(ps) |-> n]
         IN  Returned(ResultOf(SortDesc(all, score), k, m))

(***************************************************************************)
(* The calls of rank_papers that are tried.                                *)
(***************************************************************************)
PaperDeep ==
    [title |-> <<"D", "e", "e", "p">>, snippet |-> <<"d">>,
     citations |-> Some(500), year |-> Some(2015)]

PaperDe ==
    [title |-> <<"d", "e">>, snippet |-> <<>>, citations |-> None, year |-> None]

PaperSnippetOnly ==
    [title |-> <<>>, snippet |-> <<"D", "e">>, citations |-> Some(0),
     year |-> Some(1999)]

PaperBlank ==
    [title |-> <<" ">>, snippet |-> <<>>, citations |-> Some(9),
     year |-> Some(2025)]

PaperEmptyNegative ==
    [title |-> <<>>, snippet |-> <<" ">>, citations |-> Some(-5), year |-> None]

PaperNegative ==
    [title |-> <<"d", "e">>, snippet |-> <<>>, citations |-> Some(-5),
     year |-> Some(2025)]

RankRecords ==
    {PaperDeep, PaperDe, PaperSnippetOnly, PaperBlank, PaperEmptyNegative,
     PaperNegative}

Queries == {<<"D", "e", "e", "p">>, <<"d", "E">>}

\* The seven modes and a name that is none of them.
ModeNames == Modes \cup {"bogus"}

TopKs == (0 - 1)..(MaxPapers + 1)

SemTexts == {SemText(r) : r \in {x \in RankRecords : ~Skipped(x)}}

\* Cosine similarities an embedding model may give, in millionths.
CosValues == {200000, 900000}

NoCos == [t \in SemTexts |-> 0]

RankInit ==
    /\ pc = "idle"
    /\ pool_size = 0
    /\ wait_for_user = FALSE
    /\ pages = 0
    /\ i = 0
    /\ results = <<>>
    /\ scrape_done = FALSE
    /\ captcha_flag = FALSE
    /\ driver = "none"
    /\ browser = "none"
    /\ markup = FALSE
    /\ timedOut = FALSE
    /\ flagMade = FALSE
    /\ opCleared = FALSE
    /\ entries = <<>>
    /\ ret = <<>>
    /\ visited = <<>>
    /\ seen = <<>>
    /\ rpc = "call"
    /\ query \in Queries
    /\ papers \in SeqsUpTo(RankRecords, MaxPapers)
    /\ max_results \in TopKs
    /\ mode \in ModeNames
    /\ cos \in (IF mode = "semantic" THEN [SemTexts -> CosValues] ELSE {NoCos})
    /\ ranked = Returned(<<>>)

\* A variant that sorts the caller's list in place (papers.sort) and leaves
\* it in the order of the scores.
PapersSortedInPlace(ps, outcome) ==
    IF outcome.raised \/ Len(outcome.order) # Len(ps) THEN ps
    ELSE [k \in 1..Len(ps) |-> ps[outcome.order[k]]]

\* The caller's list after the call: both functions only read papers and its
\* dicts; they sort and slice the list scored they build themselves.
PapersAfter(ps, outcome) == ps

\* ranked = rank_papers(query, papers, max_results, mode)
Rank ==
    /\ rpc = "call"
    /\ ranked' = RankPapers(query, cos, papers, max_results, mode)
    /\ papers' = PapersAfter(papers, ranked')
    /\ rpc' = "done"
    /\ UNCHANGED <<query, max_results, mode, cos>>
    /\ UNCHANGED <<pc, pool_size, wait_for_user, pages, i, results,
                   scrape_done, captcha_flag, driver, browser, markup,
                   timedOut, flagMade, opCleared, entries, ret>>
    /\ UNCHANGED logVars

RankNext == Rank

RankSpec == RankInit /\ [][RankNext]_vars

(***************************************************************************)
(* Claims about rank_papers, checked under RankSpec.                       *)
(***************************************************************************)

\* The score the call gives the paper at position n.
ScoreOf(n) ==
    IF mode = "semantic" THEN SemScore(cos, papers[n])
    ELSE LexScore(query, papers[n], Weights(mode))

RankReturned == rpc = "done" /\ ~ranked.raised

\* C5: the returned list is in non-increasing order of score, and records of
\* equal score keep the order they have in the pool.
C5_SortedStable ==
    RankReturned =>
        \A a, b \in 1..Len(ranked.order) :
            a < b =>
               \/ ScoreOf(ranked.order[a]) > ScoreOf(ranked.order[b])
               \/ /\ ScoreOf(ranked.order[a]) = ScoreOf(ranked.order[b])
                  /\ ranked.order[a] < ranked.order[b]

\* C5 witness: two different records of equal score were returned, behind a
\* record of higher score that stands later in the pool.
C5_Witness ==
    /\ RankReturned
    /\ Len(ranked.order) = 3
    /\ ranked.order[1] = 3
    /\ ScoreOf(ranked.order[2]) = ScoreOf(ranked.order[3])
    /\ papers[ranked.order[2]] # papers[ranked.order[3]]

\* C6: mode "single" returns at most one record; for a non-empty pool it is
\* the record of highest lexical similarity, the earliest of the pool among
\* equals, whatever max_results is.
C6_SingleTopSimilarity ==
    (RankReturned /\ mode = "single") =>
        /\ Len(ranked.order) <= 1
        /\ papers # <<>> =>
              /\ Len(ranked.order) = 1
              /\ \A n \in 1..Len(papers) :
                    \/ LexSim(query, papers[ranked.order[1]]) > LexSim(query, papers[n])
                    \/ /\ LexSim(query, papers[ranked.order[1]]) = LexSim(query, papers[n])
                       /\ ranked.order[1] <= n

\* C6 witness: "single" with max_results above 1 on a pool of three returned
\* one record, and not the first of the pool.
C6_Witness ==
    /\ RankReturned
    /\ mode = "single"
    /\ max_results > 1
    /\ Len(papers) = 3
    /\ Len(ranked.order) = 1
    /\ ranked.order[1] # 1

\* A text without a character other than whitespace.
Blank(t) == \A k \in 1..Len(t) : IsSpace(t[k])

BlankPaper(paper) == Blank(paper.title) /\ Blank(paper.snippet)

NonBlank == {n \in 1..Len(papers) : ~BlankPaper(papers[n])}

InOrder == {ranked.order[a] : a \in 1..Len(ranked.order)}

Min(x, y) == IF x < y THEN x ELSE y

C8_UnknownModeIsBalanced ==
    (rpc = "done" /\ mode \notin Modes) =>
        /\ ~ranked.raised
        /\ ranked = RankPapers(query, cos, papers, max_results, "balanced")

\* C12: a call leaves the pool as it was, same records with the same fields
\* in the same order, whether it returns or raises; what it returns are
\* positions of that pool.
C12_PoolUnchanged ==
    [][(rpc = "call" /\ rpc' = "done") =>
          /\ papers' = papers
          /\ \A a \in 1..Len(ranked'.order) : ranked'.order[a] \in 1..Len(papers)]_vars

\* C12 witness: a pool of three came back whole in another order.
C12_Witness ==
    /\ RankReturned
    /\ Len(papers) = 3
    /\ Len(ranked.order) = 3
    /\ ranked.order[1] # 1

Max(x, y) == IF x < y THEN y ELSE x

\* C14: in a mode other than "semantic" and "single" (a name that is no mode
\* included) rank_papers returns at most max(max_results, 0) records, exactly
\* min(max_results, n) of a pool of n when max_results >= 0, each of them
\* another position of the pool; of an empty pool it returns the empty list
\* and raises nothing.
C14_ResultSize ==
    (rpc = "done" /\ mode \notin {"semantic", "single"}) =>
        /\ ~ranked.raised =>
              /\ Len(ranked.order) <= Max(max_results, 0)
              /\ max_results >= 0 =>
                    Len(ranked.order) = Min(max_results, Len(papers))
              /\ \A a \in 1..Len(ranked.order) :
                    ranked.order[a] \in 1..Len(papers)
              /\ \A a, b \in 1..Len(ranked.order) :
                    a # b => ranked.order[a] # ranked.order[b]
        /\ papers = <<>> => (~ranked.raised /\ ranked.order = <<>>)

====
